---- MODULE Spec2Model ----
(***************************************************************************)
(* Model of rwrotson/localnw-audiostream.                                  *)
(*                                                                         *)
(*   Part 1  signalling_server.py : the broadcast relay.  One handler      *)
(*           coroutine (signaling_server) per websocket connection, all    *)
(*           on one asyncio event loop, sharing the module-level set       *)
(*           `clients`.  A handler runs atomically between two await       *)
(*           points; the await points are `async for message in websocket` *)
(*           and `await client.send(message)`.                             *)
(*   Part 2  gstreamer_server_.py : WebRTCClient, the producer's client:   *)
(*           connect() and its receive loop, _handle_message, send and     *)
(*           _stop_pipeline, with the signaller (the pipeline adapter) as  *)
(*           a log of the signals emitted to it.                           *)
(*                                                                         *)
(*   Part 3  gstreamer_server_.py : the pipeline's side of the client:     *)
(*           the bus reader _on_bus_poll, the signaller's callbacks,       *)
(*           send_soon and the sends it schedules on the loop.             *)
(*                                                                         *)
(* The two programs are separate processes.  Spec is the relay's           *)
(* specification and FairSpec the relay under a fair event loop;           *)
(* ClientSpec is the client receiving frames, BusSpec the client with the  *)
(* pipeline's bus, SendSpec the client with the signaller's callbacks.     *)
(***************************************************************************)
EXTENDS Integers, Sequences, FiniteSets, TLC

\* ------------------------------------------------------------------ bounds
NumConns == 3       \* websocket connections the server ever accepts
MaxMsgs  == 2       \* frames the peers send to the server, all peers together

Conns == 1..NumConns

\* Envelope types and session ids the peers put in their frames.  The relay
\* does not look at them; they are the payloads it has to carry verbatim.
SessionIds == {"s1"}
RelayTypes == {"startSession", "peer", "endSession"}
Payloads   == [type : RelayTypes, sessionId : SessionIds]

NoConn == 0         \* "no target": the handler is not inside client.send

MaxFrames == 2      \* frames the server sends to the WebRTCClient
MaxBus    == 2      \* messages the pipeline posts on its bus
MaxCalls  == 2      \* send-session-description, send-ice and end-session
                    \* callbacks the signaller fires

VARIABLES
    clients,    \* signalling_server.py:7   the registry, a set of connections
    pc,         \* position of each connection's handler coroutine
    open,       \* whether the server-side websocket of a connection is OPEN
    inq,        \* frames received from the peer, not yet yielded by async for
    message,    \* the frame a handler is fanning out (loop variable, line 14)
    itSize,     \* set iterator of line 15: len(clients) when it was created
    itPos,      \* set iterator of line 15: next table slot to look at
    target,     \* the `client` whose send() the handler is suspended in
    delivered,  \* per registered connection: the frames written to it
    nsent,      \* number of frames the peers have sent so far
    fan,        \* history: a handler's current or last fan-out, [seq, audience]
    raised      \* the exception that ended a handler, "none" if none did

srvVars == <<clients, pc, open, inq, message, itSize, itPos, target, delivered,
             nsent, fan, raised>>

VARIABLES
    connection, \* gstreamer_server_.py:58  self._connection: "None" or "ws"
    cpc,        \* position of the connect() coroutine
    cexc,       \* the exception that left connect(), "none" if none did
    peer_id,    \* gstreamer_server_.py:166 self.peer_id, "unset" before
    pipe,       \* state of self.pipe: "PLAYING" or "NULL"
    reader,     \* whether the bus reader is registered with the event loop
    loop,       \* the event loop: "running" or "stopped"
    srvOpen,    \* whether the server's end of the connection is open
    inbox,      \* frames received from the server, not yet yielded
    wire,       \* envelopes the client has written to the connection
    emitted,    \* signals emitted to the signaller, in order
    handled,    \* history: the frames _handle_message was called with
    bus,        \* messages posted on the pipeline's bus, not yet popped
    polled,     \* history: the bus messages _on_bus_poll has popped
    tasks,      \* send coroutines scheduled on the loop by send_soon
    fired,      \* history: the callbacks the signaller has fired
    lost        \* history: the envelopes whose send raised

pipVars == <<bus, polled, tasks, fired, lost>>

cliVars == <<connection, cpc, cexc, peer_id, pipe, reader, loop, srvOpen,
             inbox, wire, emitted, handled, pipVars>>

vars == <<srvVars, cliVars>>

\* A frame in the server: its payload, and as history the number the frame
\* has among all frames sent (seq) and the payload as the peer sent it.
NoPayload == [type |-> "none", sessionId |-> "none"]
NoMessage == [seq |-> 0, payload |-> NoPayload, sent |-> NoPayload]
NoFan     == [seq |-> 0, audience |-> {}]

\* A handler is live from clients.add (line 12) to clients.remove (line 19).
Live(c) == pc[c] \in {"recv", "send"}

SrvInit ==
    /\ clients   = {}
    /\ pc        = [c \in Conns |-> "idle"]
    /\ open      = [c \in Conns |-> FALSE]
    /\ inq       = [c \in Conns |-> <<>>]
    /\ message   = [c \in Conns |-> NoMessage]
    /\ itSize    = [c \in Conns |-> 0]
    /\ itPos     = [c \in Conns |-> 1]
    /\ target    = [c \in Conns |-> NoConn]
    /\ delivered = [c \in Conns |-> <<>>]
    /\ nsent     = 0
    /\ fan       = [c \in Conns |-> NoFan]
    /\ raised    = [c \in Conns |-> "none"]

\* WebRTCClient.__init__ (lines 57-67): no connection, the bus reader added
\* by _setup_pipeline, the pipeline set to PLAYING; main() then runs the loop.
CliInit ==
    /\ connection = "None"
    /\ cpc        = "idle"
    /\ cexc       = "none"
    /\ peer_id    = "unset"
    /\ pipe       = "PLAYING"
    /\ reader     = TRUE
    /\ loop       = "running"
    /\ srvOpen    = FALSE
    /\ inbox      = <<>>
    /\ wire       = <<>>
    /\ emitted    = <<>>
    /\ handled    = <<>>
    /\ bus        = <<>>
    /\ polled     = <<>>
    /\ tasks      = <<>>
    /\ fired      = <<>>
    /\ lost       = <<>>

Init == SrvInit /\ CliInit

\* ------------------------------------------------ the fan-out loop, line 15-17

\* One next() of CPython's set iterator.  It first compares the set's size
\* with the size it saw when it was created and raises RuntimeError ("Set
\* changed size during iteration") when they differ; otherwise it scans the
\* hash table from its position for the next occupied slot.  Each connection
\* object occupies the slot of its number (distinct objects, no collisions,
\* no resize below five entries), so the scan order is the order of Conns.
SetIterNext(cl, size, pos) ==
    IF Cardinality(cl) # size
    THEN [kind |-> "RuntimeError", item |-> NoConn, pos |-> pos]
    ELSE LET rest == {k \in cl : k >= pos}
         IN  IF rest = {}
             THEN [kind |-> "StopIteration", item |-> NoConn, pos |-> pos]
             ELSE LET k == CHOOSE x \in rest : \A y \in rest : x <= y
                  IN  [kind |-> "item", item |-> k, pos |-> k + 1]

\* line 16: `if client != websocket`
IsOther(client, websocket) == client # websocket

\* The loop of lines 15-16 run up to its next await: the next client the
\* handler of `websocket` calls send() on, or how the loop ends.  No await
\* lies between two next() calls that skip the sender itself.
RECURSIVE NextSend(_, _, _, _)
NextSend(cl, size, pos, websocket) ==
    LET r == SetIterNext(cl, size, pos)
    IN  IF r.kind = "item" /\ ~IsOther(r.item, websocket)
        THEN NextSend(cl, size, r.pos, websocket)
        ELSE r

\* What client.send(message) writes to the receiving connection (line 17):
\* the frame as received.  `from`, `seq` and `sent` are history, the payload
\* is data.
Frame(websocket, msg) ==
    [from |-> websocket, seq |-> msg.seq, payload |-> msg.payload,
     sent |-> msg.sent]

\* Variant of Send: the frame overtakes the frames written before it.
SendOvertaking(box, websocket, msg) == <<Frame(websocket, msg)>> \o box

Send(box, websocket, msg) == Append(box, Frame(websocket, msg))

\* The other peers connected when a frame is read: registered and open.
Others(c) == {d \in clients \ {c} : open[d]}

\* History of the fan-outs: the audience of a fan-out is the peers connected
\* when its frame was read; a peer that disconnects leaves every audience.
Forget(f, c) == [d \in Conns |-> [f[d] EXCEPT !.audience = @ \ {c}]]

\* --------------------------------------------------------- handler outcomes

\* The loop reached its next send(): the handler suspends in it.
Suspend(c, r) ==
    /\ pc'       = [pc EXCEPT ![c] = "send"]
    /\ target'   = [target EXCEPT ![c] = r.item]
    /\ itPos'    = [itPos EXCEPT ![c] = r.pos]
    /\ UNCHANGED <<clients, open, raised>>

\* The loop is exhausted: back to `async for` (line 14).
LoopDone(c) ==
    /\ pc'       = [pc EXCEPT ![c] = "recv"]
    /\ target'   = [target EXCEPT ![c] = NoConn]
    /\ itPos'    = [itPos EXCEPT ![c] = 1]
    /\ UNCHANGED <<clients, open, raised>>

\* Variant of Raise: no finally clause, a handler that raises stays registered.
RaiseNoFinally(c, exception) ==
    /\ pc'       = [pc EXCEPT ![c] = "failed"]
    /\ raised'   = [raised EXCEPT ![c] = exception]
    /\ target'   = [target EXCEPT ![c] = NoConn]
    /\ itPos'    = [itPos EXCEPT ![c] = 1]
    /\ open'     = [open EXCEPT ![c] = FALSE]
    /\ UNCHANGED clients

\* An exception left the loop: the finally clause (line 19) removes the
\* connection, the handler ends, and the websockets library closes the
\* connection of a handler that raised.
Raise(c, exception) ==
    /\ pc'       = [pc EXCEPT ![c] = "failed"]
    /\ raised'   = [raised EXCEPT ![c] = exception]
    /\ target'   = [target EXCEPT ![c] = NoConn]
    /\ itPos'    = [itPos EXCEPT ![c] = 1]
    /\ clients'  = clients \ {c}
    /\ open'     = [open EXCEPT ![c] = FALSE]

\* The loop's local variables live while the handler is inside the loop.
Locals(c, msg, size) ==
    /\ message' = [message EXCEPT ![c] = IF pc'[c] = "send" THEN msg ELSE NoMessage]
    /\ itSize'  = [itSize EXCEPT ![c] = IF pc'[c] = "send" THEN size ELSE 0]

Outcome(c, r) ==
    CASE r.kind = "item"          -> Suspend(c, r)
      [] r.kind = "StopIteration" -> LoopDone(c)
      [] OTHER                    -> Raise(c, r.kind)

\* What is kept of a connection whose handler has ended: nothing is written
\* to it any more and its unread frames are dropped.
Drop(box, c) == [box EXCEPT ![c] = <<>>]

\* ----------------------------------------------------------------- actions

\* A connection is accepted and its handler starts: clients.add (line 12),
\* then the handler waits in `async for` (line 14).
Connect(c) ==
    /\ UNCHANGED cliVars
    /\ pc[c] = "idle"
    /\ clients' = clients \cup {c}
    /\ pc'      = [pc EXCEPT ![c] = "recv"]
    /\ open'    = [open EXCEPT ![c] = TRUE]
    /\ UNCHANGED <<inq, message, itSize, itPos, target, delivered, nsent,
                   fan, raised>>

\* The peer of an open connection sends a frame.
PeerSend(c, p) ==
    /\ UNCHANGED cliVars
    /\ Live(c) /\ open[c]
    /\ nsent < MaxMsgs
    /\ inq'     = [inq EXCEPT ![c] =
                     Append(@, [seq |-> nsent + 1, payload |-> p, sent |-> p])]
    /\ nsent'   = nsent + 1
    /\ UNCHANGED <<clients, pc, open, message, itSize, itPos, target,
                   delivered, fan, raised>>

\* The peer closes its connection, or the network drops it.  The handler is
\* not told until it next waits in `async for`.
PeerClose(c) ==
    /\ UNCHANGED cliVars
    /\ Live(c) /\ open[c]
    /\ open'     = [open EXCEPT ![c] = FALSE]
    /\ fan'      = Forget(fan, c)
    /\ UNCHANGED <<clients, pc, inq, message, itSize, itPos, target,
                   delivered, nsent, raised>>

\* `async for` yields the next frame (line 14) and the handler runs the loop
\* of line 15 up to its first send().
Receive(c) ==
    /\ UNCHANGED cliVars
    /\ pc[c] = "recv"
    /\ inq[c] # <<>>
    /\ inq'      = [inq EXCEPT ![c] = Tail(@)]
    /\ fan'      = [fan EXCEPT ![c] =
                      [seq |-> Head(inq[c]).seq, audience |-> Others(c)]]
    /\ Outcome(c, NextSend(clients, Cardinality(clients), 1, c))
    /\ Locals(c, Head(inq[c]), Cardinality(clients))
    /\ UNCHANGED <<delivered, nsent>>

\* The send() a handler is suspended in completes (line 17): on a connection
\* that is no longer open it raises ConnectionClosed, otherwise the frame is
\* written and the loop goes on to its next send().
SendDone(c) ==
    /\ UNCHANGED cliVars
    /\ pc[c] = "send"
    /\ LET t == target[c]
           written == IF open[t]
                      THEN [delivered EXCEPT ![t] = Send(@, c, message[c])]
                      ELSE delivered
       IN  /\ IF open[t]
              THEN Outcome(c, NextSend(clients, itSize[c], itPos[c], c))
              ELSE Raise(c, "ConnectionClosed")
           /\ delivered' = IF pc'[c] = "failed" THEN Drop(written, c) ELSE written
    /\ Locals(c, message[c], itSize[c])
    /\ inq' = IF pc'[c] = "failed" THEN Drop(inq, c) ELSE inq
    /\ fan' = IF pc'[c] = "failed" THEN Forget(fan, c) ELSE fan
    /\ UNCHANGED nsent

\* `async for` ends on a closed connection with nothing left to yield; the
\* finally clause removes the connection (line 19) and the handler returns.
HandlerEnd(c) ==
    /\ UNCHANGED cliVars
    /\ pc[c] = "recv"
    /\ ~open[c]
    /\ inq[c] = <<>>
    /\ clients'   = clients \ {c}
    /\ pc'        = [pc EXCEPT ![c] = "done"]
    /\ delivered' = Drop(delivered, c)
    /\ UNCHANGED <<open, inq, message, itSize, itPos, target, nsent, fan,
                   raised>>

signaling_server ==
    \/ \E c \in Conns : Connect(c)
    \/ \E c \in Conns, p \in Payloads : PeerSend(c, p)
    \/ \E c \in Conns : PeerClose(c)
    \/ \E c \in Conns : Receive(c)
    \/ \E c \in Conns : SendDone(c)
    \/ \E c \in Conns : HandlerEnd(c)

Next == signaling_server

Spec == Init /\ [][Next]_vars

\* A receiver that may be slow for ever: its peer stops reading, the
\* transport's buffers fill and client.send (line 17) waits until the peer
\* reads again or the connection is closed.  It is the connection the set
\* iterator of line 15 reaches first.
SlowConn == CHOOSE c \in Conns : \A d \in Conns : c <= d

\* The send a handler is suspended in can complete: its target reads, or its
\* target's connection is closed and send raises at once.
SendCompletes(c) ==
    /\ SendDone(c)
    /\ target[c] # SlowConn \/ ~open[target[c]]

\* The event loop runs every handler that can run: a frame waiting in
\* `async for` is yielded, a send that can complete does, a handler whose
\* connection has closed ends.  What the peers do is under no obligation.
Fairness ==
    \A c \in Conns :
        /\ WF_vars(Receive(c))
        /\ WF_vars(SendCompletes(c))
        /\ WF_vars(HandlerEnd(c))

FairSpec == Spec /\ Fairness

\* ============================================== Part 2: the WebRTCClient

Absent == "<absent>"    \* a key the JSON object does not have
Null   == "<null>"      \* JSON null
Meta   == "meta"        \* what the signaller answers to request-meta

\* A frame as the server sent it.  `syntax` tells what json.loads makes of
\* the text: "invalid" (not JSON), "array" (JSON, but no object) or "object";
\* the other fields are the keys of the object, Absent when it has none.
\* sdp and ice are nested objects: hasSdp/hasIce tell whether the key is
\* there, the fields after them what the nested object holds.
Obj(type, peerId, sessionId, offer, details) ==
    [syntax |-> "object", type |-> type, peerId |-> peerId,
     sessionId |-> sessionId, offer |-> offer, details |-> details,
     hasSdp |-> FALSE, sdpType |-> Absent, sdpText |-> Absent,
     hasIce |-> FALSE, candidate |-> Absent, sdpMLineIndex |-> Absent]

NotJson   == [Obj(Absent, Absent, Absent, Absent, Absent) EXCEPT !.syntax = "invalid"]
JsonArray == [Obj(Absent, Absent, Absent, Absent, Absent) EXCEPT !.syntax = "array"]

SdpFrame(sessionId, sdpType, sdpText) ==
    [Obj("peer", Absent, sessionId, Absent, Absent) EXCEPT
        !.hasSdp = TRUE, !.sdpType = sdpType, !.sdpText = sdpText]

IceFrame(sessionId, candidate, index) ==
    [Obj("peer", Absent, sessionId, Absent, Absent) EXCEPT
        !.hasIce = TRUE, !.candidate = candidate, !.sdpMLineIndex = index]

\* The frames the server may send: every envelope of the protocol, each with
\* and without each of its fields, and frames that are no envelope at all.
Inbound ==
    {NotJson, JsonArray}
    \cup {Obj("welcome", pid, Absent, Absent, Absent) : pid \in {"p1", Absent}}
    \cup {Obj("sessionStarted", Absent, "s1", Absent, Absent)}
    \cup {Obj("startSession", pid, sid, offer, Absent) :
            pid \in {"p2", Absent}, sid \in {"s1", Absent},
            offer \in {"v=0 o", Null, Absent}}
    \cup {Obj("endSession", Absent, sid, Absent, Absent) : sid \in {"s1", Absent}}
    \cup {SdpFrame(sid, ty, text) :
            sid \in {"s1", Absent}, ty \in {"answer", "offer", Absent},
            text \in {"v=0 a", Absent}}
    \cup {IceFrame(sid, cand, idx) :
            sid \in {"s1", Absent}, cand \in {"candidate:1", Absent},
            idx \in {"0", Absent}}
    \cup {Obj("peer", Absent, "s1", Absent, Absent)}
    \cup {Obj("error", Absent, Absent, Absent, d) : d \in {"boom", Absent}}
    \cup {Obj(ty, Absent, Absent, Absent, Absent) : ty \in {"list", Absent}}

\* The types _handle_message has a case for (lines 165-199).
KnownTypes ==
    {"welcome", "sessionStarted", "startSession", "endSession", "peer", "error"}

\* A signal emitted to the signaller.  `cause` is history: the frame handled.
Signal(name, sessionId, peerId, arg, cause) ==
    [signal |-> name, sessionId |-> sessionId, peerId |-> peerId,
     arg |-> arg, cause |-> cause]

\* Variant of Result: every signal given to the signaller is acknowledged to
\* the server.
ResultAcknowledged(exc, pid, out, ev) ==
    [exc |-> exc, peer_id |-> pid,
     out |-> IF out = <<>> /\ ev # <<>> THEN <<[type |-> "ack"]>> ELSE out,
     ev |-> ev]

\* What a run of _handle_message comes to, up to its send: the exception it
\* raises ("none" if it returns), self.peer_id afterwards, the envelope it
\* passes to self.send (at most one) and the signals it has emitted.
Result(exc, pid, out, ev) ==
    [exc |-> exc, peer_id |-> pid, out |-> out, ev |-> ev]

\* json.loads (lines 158-162): the exception is re-raised.
JsonLoads(frame) ==
    IF frame.syntax = "invalid" THEN "JSONDecodeError" ELSE "none"

\* msg.get("type") (line 164): only a JSON object has a get.
GetType(frame) ==
    IF frame.syntax = "object" THEN "none" ELSE "AttributeError"

\* Variant of MatchCase: a type no case names is taken for an error envelope.
MatchCaseUnknownIsError(type) == IF type \in KnownTypes THEN type ELSE "error"

\* The case of the match statement (lines 164-202) a type selects; a type
\* no case names, and a missing type (None), select the default case.
MatchCase(type) == IF type \in KnownTypes THEN type ELSE "_"

\* Variant of AssertAnswer: the assertion is not made.
AssertNothing(sdpType) == TRUE

\* line 191: assert sdp["type"] == "answer"
AssertAnswer(sdpType) == sdpType = "answer"

\* msg[key] for each key in turn: KeyError at the first that is absent.
AllPresent(values) == \A i \in DOMAIN values : values[i] # Absent

\* emit_session_description (lines 272-275) builds an ANSWER whatever it is
\* given; emit_session_requested gets an OFFER built at lines 181-183, or
\* None for an offer that is null.
Description(kind, text) == <<kind, text>>

_handle_message(frame, pid) ==
    IF JsonLoads(frame) # "none" THEN Result(JsonLoads(frame), pid, <<>>, <<>>)
    ELSE IF GetType(frame) # "none" THEN Result(GetType(frame), pid, <<>>, <<>>)
    ELSE LET case == MatchCase(frame.type)
             KeyError == Result("KeyError", pid, <<>>, <<>>)
             Pass     == Result("none", pid, <<>>, <<>>)
             Emit(e)  == Result("none", pid, <<>>, <<e>>)
    IN  CASE case = "welcome" ->
               IF frame.peerId = Absent THEN KeyError
               ELSE Result("none", frame.peerId,
                           <<[type |-> "setPeerStatus", roles |-> <<"producer">>,
                              meta |-> Meta]>>,
                           <<Signal("request-meta", Absent, Absent, <<>>, frame)>>)
          [] case = "sessionStarted" -> Pass
          [] case = "startSession" ->
               IF ~AllPresent(<<frame.offer, frame.sessionId, frame.peerId>>)
               THEN KeyError
               ELSE Emit(Signal("session-requested", frame.sessionId, frame.peerId,
                                IF frame.offer = Null THEN <<>>
                                ELSE Description("OFFER", frame.offer), frame))
          [] case = "endSession" ->
               IF frame.sessionId = Absent THEN KeyError
               ELSE Emit(Signal("session-ended", frame.sessionId, Absent, <<>>, frame))
          [] case = "peer" ->
               IF frame.hasSdp
               THEN IF frame.sdpType = Absent THEN KeyError
                    ELSE IF ~AssertAnswer(frame.sdpType)
                    THEN Result("AssertionError", pid, <<>>, <<>>)
                    ELSE IF ~AllPresent(<<frame.sessionId, frame.sdpText>>)
                    THEN KeyError
                    ELSE Emit(Signal("session-description", frame.sessionId, Absent,
                                     Description("ANSWER", frame.sdpText), frame))
               ELSE IF frame.hasIce
               THEN IF ~AllPresent(<<frame.sessionId, frame.sdpMLineIndex,
                                     frame.candidate>>)
                    THEN KeyError
                    ELSE Emit(Signal("handle-ice", frame.sessionId, Absent,
                                     <<frame.sdpMLineIndex, frame.candidate>>, frame))
               ELSE Pass
          [] case = "error" ->
               IF frame.details = Absent THEN KeyError
               ELSE Emit(Signal("error", Absent, Absent, <<frame.details>>, frame))
          [] OTHER -> Pass

\* _stop_pipeline (lines 86-92): the bus reader is removed, the loop stopped
\* and the pipeline set to NULL.
_stop_pipeline ==
    /\ reader' = FALSE
    /\ loop'   = "stopped"
    /\ pipe'   = "NULL"

\* Variant of Finally: the connection is cleared and the pipeline left alone.
FinallyClearsOnly(position, exception) ==
    /\ cpc'        = position
    /\ cexc'       = exception
    /\ connection' = "None"
    /\ UNCHANGED <<pipe, reader, loop>>

\* The finally clause of connect() (lines 151-153), with how connect() ended.
Finally(position, exception) ==
    /\ cpc'        = position
    /\ cexc'       = exception
    /\ connection' = "None"
    /\ _stop_pipeline

\* ---------------------------------------------------------- client actions

\* The signaller's start signal (lines 209-212): connect() is scheduled on
\* the loop and waits in websockets.connect.
_on_start ==
    /\ UNCHANGED <<srvVars, pipVars>>
    /\ loop = "running"
    /\ cpc = "idle"
    /\ cpc' = "connecting"
    /\ UNCHANGED <<connection, cexc, peer_id, pipe, reader, loop, srvOpen,
                   inbox, wire, emitted, handled>>

\* websockets.connect returns (line 147): the connection is stored and
\* connect() waits in `async for` (line 149).
Connected ==
    /\ UNCHANGED <<srvVars, pipVars>>
    /\ loop = "running"
    /\ cpc = "connecting"
    /\ connection' = "ws"
    /\ srvOpen'    = TRUE
    /\ cpc'        = "recv"
    /\ UNCHANGED <<cexc, peer_id, pipe, reader, loop, inbox, wire, emitted,
                   handled>>

\* websockets.connect raises (line 147, before the try): connect() ends with
\* the exception and the finally clause does not run.
ConnectFails ==
    /\ UNCHANGED <<srvVars, pipVars>>
    /\ loop = "running"
    /\ cpc = "connecting"
    /\ cpc'  = "failed"
    /\ cexc' = "OSError"
    /\ UNCHANGED <<connection, peer_id, pipe, reader, loop, srvOpen, inbox,
                   wire, emitted, handled>>

\* The server sends a frame to the client.
ServerFrame(frame) ==
    /\ UNCHANGED <<srvVars, pipVars>>
    /\ srvOpen
    /\ Len(handled) + Len(inbox) < MaxFrames
    /\ inbox' = Append(inbox, frame)
    /\ UNCHANGED <<connection, cpc, cexc, peer_id, pipe, reader, loop, srvOpen,
                   wire, emitted, handled>>

\* The server closes the connection.
ServerClose ==
    /\ UNCHANGED <<srvVars, pipVars>>
    /\ srvOpen
    /\ srvOpen' = FALSE
    /\ UNCHANGED <<connection, cpc, cexc, peer_id, pipe, reader, loop, inbox,
                   wire, emitted, handled>>

\* HandleMessage, but a candidate that arrives before the answer is held
\* back instead of being handed to the signaller.
HandleMessageHoldsIce ==
    /\ UNCHANGED <<srvVars, pipVars>>
    /\ loop = "running"
    /\ cpc = "recv"
    /\ inbox # <<>>
    /\ LET frame  == Head(inbox)
           r      == _handle_message(frame, peer_id)
           closed == r.out # <<>> /\ ~srvOpen
           exc    == IF closed THEN "ConnectionClosed" ELSE r.exc
           early  == /\ frame.hasIce
                     /\ \A i \in DOMAIN emitted :
                            emitted[i].signal # "session-description"
       IN  /\ inbox'   = Tail(inbox)
           /\ handled' = Append(handled, frame)
           /\ peer_id' = r.peer_id
           /\ emitted' = IF early THEN emitted ELSE emitted \o r.ev
           /\ wire'    = IF closed THEN wire ELSE wire \o r.out
           /\ IF exc = "none"
              THEN UNCHANGED <<connection, cpc, cexc, pipe, reader, loop>>
              ELSE Finally("failed", exc)
    /\ UNCHANGED srvOpen

\* `async for` yields a frame and connect() awaits _handle_message (lines
\* 149-150).  The handler's send (line 173, send at 133-136) raises
\* ConnectionClosed on a connection the server has closed.  An exception of
\* the handler leaves connect() through its finally clause.
HandleMessage ==
    /\ UNCHANGED <<srvVars, pipVars>>
    /\ loop = "running"
    /\ cpc = "recv"
    /\ inbox # <<>>
    /\ LET frame  == Head(inbox)
           r      == _handle_message(frame, peer_id)
           closed == r.out # <<>> /\ ~srvOpen
           exc    == IF closed THEN "ConnectionClosed" ELSE r.exc
       IN  /\ inbox'   = Tail(inbox)
           /\ handled' = Append(handled, frame)
           /\ peer_id' = r.peer_id
           /\ emitted' = emitted \o r.ev
           /\ wire'    = IF closed THEN wire ELSE wire \o r.out
           /\ IF exc = "none"
              THEN UNCHANGED <<connection, cpc, cexc, pipe, reader, loop>>
              ELSE Finally("failed", exc)
    /\ UNCHANGED srvOpen

\* `async for` ends: the server has closed and nothing is left to yield.
\* After a closing handshake the loop just ends; after a connection lost
\* without one it raises ConnectionClosedError.  Either way connect() leaves
\* through its finally clause (lines 151-153).
Disconnected(clean) ==
    /\ UNCHANGED <<srvVars, pipVars>>
    /\ loop = "running"
    /\ cpc = "recv"
    /\ ~srvOpen
    /\ inbox = <<>>
    /\ IF clean THEN Finally("done", "none")
                ELSE Finally("failed", "ConnectionClosedError")
    /\ UNCHANGED <<peer_id, srvOpen, inbox, wire, emitted, handled>>

ClientNext ==
    \/ _on_start
    \/ Connected
    \/ ConnectFails
    \/ \E frame \in Inbound : ServerFrame(frame)
    \/ ServerClose
    \/ HandleMessage
    \/ \E clean \in BOOLEAN : Disconnected(clean)

ClientSpec == Init /\ [][ClientNext]_vars

\* ====================== Part 3: the pipeline's side of the WebRTCClient

\* Bus messages _on_bus_poll has a case for (lines 126-131).
BusTypes == {"ERROR", "EOS", "LATENCY"}

\* _setup_pipeline (lines 79-84), called on a pipeline already set up: the
\* bus reader is added to the loop again.  Nothing else changes.
_setup_pipeline(st) == [st EXCEPT !.reader = TRUE]

\* _stop_pipeline (lines 86-92) on the state _on_bus_poll works on.
StopPipeline(st) == [reader |-> FALSE, loop |-> "stopped", pipe |-> "NULL"]

\* The match statement of _on_bus_poll (lines 125-131): handle_error stops
\* the pipeline, EOS calls _setup_pipeline, LATENCY recalculates the
\* pipeline's latency, which changes nothing here.
BusCase(type, st) ==
    CASE type = "ERROR"   -> StopPipeline(st)
      [] type = "EOS"     -> _setup_pipeline(st)
      [] type = "LATENCY" -> st
      [] OTHER            -> st

\* The loop of line 124: every message the bus holds is popped and matched,
\* whatever the messages before it did.
RECURSIVE BusLoop(_, _)
BusLoop(msgs, st) ==
    IF msgs = <<>> THEN st
    ELSE BusLoop(Tail(msgs), BusCase(Head(msgs), st))

\* The envelopes the callbacks build (lines 221-228, 235-242, 247-250).  A
\* nested object is a tuple: its key, then its values.
SdpEnvelope(session_id, offerType, text) ==
    [type |-> "peer", sessionId |-> session_id,
     body |-> <<"sdp", IF offerType = "ANSWER" THEN "answer" ELSE "offer", text>>]

IceEnvelope(session_id, candidate, sdp_m_line_index) ==
    [type |-> "peer", sessionId |-> session_id,
     body |-> <<"ice", candidate, sdp_m_line_index>>]

EndEnvelope(session_id) ==
    [type |-> "endSession", sessionId |-> session_id, body |-> <<>>]

\* The connection property (lines 69-73): what reading self.connection
\* raises.
ConnectionGetterNeverRaises(conn) == "none"

ConnectionGetter(conn) == IF conn = "None" THEN "NoConnectionError" ELSE "none"

\* stop() (lines 204-207): `if self.connection` reads the property, so it
\* raises on an unset connection; otherwise the connection is closed and
\* cleared.  Nothing in the repository calls stop().
stop(conn) ==
    IF ConnectionGetter(conn) # "none"
    THEN [exc |-> ConnectionGetter(conn), connection |-> conn, closed |-> FALSE]
    ELSE [exc |-> "none", connection |-> "None", closed |-> TRUE]

\* Variant of Dequeue: the loop runs the task scheduled last.
DequeueNewest(q) == [task |-> q[Len(q)], rest |-> SubSeq(q, 1, Len(q) - 1)]

\* The loop runs what call_soon_threadsafe has queued in the order queued.
Dequeue(q) == [task |-> Head(q), rest |-> Tail(q)]

\* send_soon (lines 138-142): one send coroutine is scheduled on the loop.
\* `call` and `unset` are history: the number of the callback that built the
\* envelope and whether the connection was unset when it was scheduled.
send_soon(callback, msg) ==
    /\ fired' = Append(fired, [callback |-> callback, sessionId |-> msg.sessionId])
    /\ tasks' = Append(tasks, [type |-> msg.type, sessionId |-> msg.sessionId,
                               body |-> msg.body, call |-> Len(fired) + 1,
                               unset |-> connection = "None"])
    /\ UNCHANGED <<srvVars, connection, cpc, cexc, peer_id, pipe, reader, loop,
                   srvOpen, inbox, wire, emitted, handled, bus, polled, lost>>

\* -------------------------------------------------------- pipeline actions

\* The signaller's callbacks (lines 219-251).  They run on the pipeline's
\* threads, whatever the loop is doing.
_on_send_session_description(session_id, offerType, text) ==
    /\ Len(fired) < MaxCalls
    /\ send_soon("send-session-description",
                 SdpEnvelope(session_id, offerType, text))

_on_send_ice(session_id, candidate, sdp_m_line_index) ==
    /\ Len(fired) < MaxCalls
    /\ send_soon("send-ice", IceEnvelope(session_id, candidate, sdp_m_line_index))

_on_end_session(session_id) ==
    /\ Len(fired) < MaxCalls
    /\ send_soon("end-session", EndEnvelope(session_id))

\* The loop runs a scheduled send (lines 133-136): reading self.connection
\* raises on an unset connection, the connection's send raises on a
\* connection the server has closed; in both cases the exception stays in
\* the future nobody reads and the envelope is gone.  Otherwise the envelope
\* is written.
RunSend ==
    /\ loop = "running"
    /\ tasks # <<>>
    /\ LET d    == Dequeue(tasks)
           fail == \/ ConnectionGetter(connection) # "none"
                   \/ connection = "ws" /\ ~srvOpen
       IN  /\ tasks' = d.rest
           /\ wire'  = IF fail THEN wire ELSE Append(wire, d.task)
           /\ lost'  = IF fail THEN Append(lost, d.task) ELSE lost
    /\ UNCHANGED <<srvVars, connection, cpc, cexc, peer_id, pipe, reader, loop,
                   srvOpen, inbox, emitted, handled, bus, polled, fired>>

\* The pipeline posts a message on its bus.
BusPost(type) ==
    /\ Len(bus) + Len(polled) < MaxBus
    /\ bus' = Append(bus, type)
    /\ UNCHANGED <<srvVars, connection, cpc, cexc, peer_id, pipe, reader, loop,
                   srvOpen, inbox, wire, emitted, handled, polled, tasks,
                   fired, lost>>

\* The loop calls the bus reader (lines 109-131), which empties the bus.
_on_bus_poll ==
    /\ loop = "running"
    /\ reader
    /\ bus # <<>>
    /\ LET st == BusLoop(bus, [reader |-> reader, loop |-> loop, pipe |-> pipe])
       IN  /\ reader' = st.reader
           /\ loop'   = st.loop
           /\ pipe'   = st.pipe
    /\ polled' = polled \o bus
    /\ bus'    = <<>>
    /\ UNCHANGED <<srvVars, connection, cpc, cexc, peer_id, srvOpen, inbox,
                   wire, emitted, handled, tasks, fired, lost>>

\* The signaller's stop signal (lines 214-217).
_on_stop ==
    /\ loop = "running"
    /\ loop' = "stopped"
    /\ UNCHANGED <<srvVars, connection, cpc, cexc, peer_id, pipe, reader,
                   srvOpen, inbox, wire, emitted, handled, pipVars>>

\* The frames the server sends while the pipeline's side is looked at: a
\* welcome, a welcome without peerId and a frame that is no JSON.
Probes == {Obj("welcome", pid, Absent, Absent, Absent) : pid \in {"p1", Absent}}
          \cup {NotJson}

\* connect() and what the server does, as far as the pipeline's side needs.
Connection ==
    \/ _on_start
    \/ Connected
    \/ ConnectFails
    \/ \E frame \in Probes : ServerFrame(frame)
    \/ ServerClose
    \/ HandleMessage
    \/ \E clean \in BOOLEAN : Disconnected(clean)

\* The client with the pipeline's bus.
BusNext ==
    \/ Connection
    \/ \E type \in BusTypes : BusPost(type)
    \/ _on_bus_poll
    \/ _on_stop

BusSpec == Init /\ [][BusNext]_vars

\* The client with the signaller's callbacks.  The bus acts on the sends
\* only by stopping the loop, which _on_stop does as well.
SendNext ==
    \/ Connection
    \/ \E ty \in {"ANSWER", "OFFER"} :
          _on_send_session_description("s1", ty, "v=0")
    \/ _on_send_ice("s1", "candidate", "0")
    \/ _on_end_session("s1")
    \/ RunSend
    \/ _on_stop

SendSpec == Init /\ [][SendNext]_vars

\* ======================================================== the relay's claims

\* How often the frame `seq` of connection `from` was written to `t`.
Copies(t, from, seq) ==
    Cardinality({i \in DOMAIN delivered[t] :
                    delivered[t][i].from = from /\ delivered[t][i].seq = seq})

\* Every frame written to a connection is a frame another peer sent, with
\* the payload that peer sent, and is written once.
Verbatim ==
    \A t \in Conns : \A i \in DOMAIN delivered[t] :
        LET f == delivered[t][i]
        IN  /\ f.from # t
            /\ f.payload = f.sent
            /\ Copies(t, f.from, f.seq) = 1

\* C1: once the fan-out of a frame received from P is over, every other peer
\* that was connected when the frame was read and has stayed connected has
\* been sent the frame exactly once; what is delivered is the payload
\* received, and it never goes back to P.
C1_ExactlyOnce ==
    /\ Verbatim
    /\ \A c \in Conns :
         (pc[c] # "send" /\ fan[c].seq > 0)
            => \A t \in fan[c].audience : Copies(t, c, fan[c].seq) = 1

\* C2: the registry holds exactly the connections whose handler is live.
C2_RegistryIsLive ==
    /\ clients = {c \in Conns : Live(c)}
    /\ Cardinality(clients) = Cardinality({c \in Conns : Live(c)})

\* A handler has returned, another has ended by an exception, a third is live.
C2_Witness ==
    \E a, b, c \in Conns :
        pc[a] = "done" /\ pc[b] = "failed" /\ Live(c) /\ clients = {c}

\* C3: a send that fails because its target is no longer connected is not
\* escalated to the sender: the sender's handler keeps running and the sender
\* stays registered.
C3_NotEscalated ==
    \A c \in Conns :
        raised[c] = "ConnectionClosed" => (Live(c) /\ c \in clients)

\* C4: a peer connecting or disconnecting while a fan-out is suspended in a
\* send never aborts the fan-out and never ends the sender's handler.
C4_FanOutNotAborted ==
    \A c \in Conns :
        raised[c] = "RuntimeError" => (Live(c) /\ c \in clients)

\* C5: the frames of one peer reach every other peer in the order sent.
C5_InOrder ==
    \A t \in Conns : \A i, j \in DOMAIN delivered[t] :
        (i < j /\ delivered[t][i].from = delivered[t][j].from)
            => delivered[t][i].seq < delivered[t][j].seq

\* A peer has been sent two frames of one sender.
C5_Witness ==
    \E t \in Conns : \E i, j \in DOMAIN delivered[t] :
        /\ i < j
        /\ delivered[t][i].from = delivered[t][j].from
        /\ delivered[t][i].seq < delivered[t][j].seq

\* A welcome envelope from the server is among the frames written to c.
Welcomed(c) ==
    \E i \in DOMAIN delivered[c] :
        delivered[c][i].from = NoConn /\ delivered[c][i].payload.type = "welcome"

\* The handler of c has read a frame of its peer.
Processed(c) == Live(c) /\ fan[c].seq > 0

\* C9: a connection is sent a welcome before any of its input is processed.
C9_WelcomeFirst ==
    \A c \in Conns : Processed(c) => Welcomed(c)

\* t has been sent a frame of type ty for session s by p.
Got(t, p, ty, s) ==
    \E i \in DOMAIN delivered[t] :
        /\ delivered[t][i].from = p
        /\ delivered[t][i].payload = [type |-> ty, sessionId |-> s]

\* t has been sent an endSession for s, by whomever.
GotEnd(t, s) ==
    \E i \in DOMAIN delivered[t] :
        delivered[t][i].payload = [type |-> "endSession", sessionId |-> s]

\* C10: when a peer has disconnected and its handler has returned, every
\* session that peer opened with a peer still connected has been ended for
\* that peer: the counterpart has been sent an endSession for it.
C10_DisconnectEndsSession ==
    \A p, t \in Conns : \A s \in SessionIds :
        (pc[p] = "done" /\ Live(t) /\ open[t] /\ Got(t, p, "startSession", s))
            => GotEnd(t, s)

\* Position i of the frames written to t holds a frame of type ty for s.
Is(t, i, ty, s) ==
    delivered[t][i].payload = [type |-> ty, sessionId |-> s]

\* C11: a startSession naming a sessionId that is already bound to a session
\* not yet ended is rejected, not relayed: between two startSession frames
\* for one sessionId written to a peer there is an endSession for it.
C11_DuplicateStartRejected ==
    \A t \in Conns : \A s \in SessionIds : \A i, j \in DOMAIN delivered[t] :
        (i < j /\ Is(t, i, "startSession", s) /\ Is(t, j, "startSession", s))
            => \E k \in (i + 1)..(j - 1) : Is(t, k, "endSession", s)

\* C14: under fair scheduling every frame a handler has read reaches every
\* peer of its audience that stays connected, another receiver being slow
\* or not.  The slow receiver itself is left aside, and so is a fan-out that
\* an exception ended (that is C3 and C4), so that what is stated is the
\* claim's own case: a send that does not complete delays the delivery to
\* no other peer for ever.
C14_EventuallyDelivered ==
    \A c, t \in Conns : \A k \in 1..MaxMsgs :
        (fan[c].seq = k /\ t \in fan[c].audience /\ t # SlowConn)
            ~> \/ Copies(t, c, k) = 1
               \/ ~(Live(t) /\ open[t])
               \/ raised[c] # "none"

\* ======================================================= the client's claims

Last(seq) == seq[Len(seq)]

\* A frame that is no JSON, no JSON object, or an envelope of a known type
\* that lacks a field its case reads.
Malformed(f) ==
    \/ f.syntax # "object"
    \/ f.type = "welcome" /\ f.peerId = Absent
    \/ f.type = "startSession"
         /\ Absent \in {f.sessionId, f.peerId, f.offer}
    \/ f.type = "endSession" /\ f.sessionId = Absent
    \/ f.type = "peer" /\ f.hasSdp
         /\ f.sdpType \in {"answer", Absent}
         /\ Absent \in {f.sessionId, f.sdpType, f.sdpText}
    \/ f.type = "peer" /\ ~f.hasSdp /\ f.hasIce
         /\ Absent \in {f.sessionId, f.candidate, f.sdpMLineIndex}
    \/ f.type = "error" /\ f.details = Absent

\* C6: after a malformed frame was handled, and while the server keeps the
\* connection open, the receive loop of connect() is still running, the
\* connection is still set, the pipeline is not stopped and no exception has
\* left connect().
C6_MalformedTolerated ==
    (handled # <<>> /\ Malformed(Last(handled)) /\ srvOpen)
        => /\ cpc = "recv"
           /\ cexc = "none"
           /\ connection = "ws"
           /\ pipe = "PLAYING" /\ loop = "running"

\* An envelope whose type no case names, or that has no type.
Unknown(f) == f.syntax = "object" /\ f.type \notin KnownTypes

\* C7: handling an envelope of unknown type sends nothing, emits nothing to
\* the signaller, changes neither peer_id nor the connection and leaves
\* connect() in its receive loop.
C7_UnknownIgnored ==
    [][(handled' # handled /\ Unknown(Last(handled')))
          => /\ wire' = wire
             /\ emitted' = emitted
             /\ peer_id' = peer_id
             /\ connection' = connection /\ connection = "ws"
             /\ cpc' = cpc /\ cexc' = cexc
             /\ pipe' = pipe /\ loop' = loop]_vars

\* An envelope of an unnamed type and one without a type were handled, after
\* which the client is still receiving.
C7_Witness ==
    /\ Len(handled) = 2
    /\ handled[1].syntax = "object" /\ handled[1].type = "list"
    /\ handled[2].syntax = "object" /\ handled[2].type = Absent
    /\ cpc = "recv" /\ connection = "ws"

\* C8: every session description the signaller is given comes from a peer
\* envelope whose sdp is of type answer; none comes from an offer.
C8_OnlyAnswers ==
    \A i \in DOMAIN emitted :
        emitted[i].signal = "session-description"
            => /\ emitted[i].cause.hasSdp
               /\ emitted[i].cause.sdpType = "answer"
               /\ emitted[i].arg = Description("ANSWER", emitted[i].cause.sdpText)

\* An answer was handled and given to the signaller, then a complete offer
\* was handled.
C8_Witness ==
    /\ Len(handled) = 2
    /\ handled[1] = SdpFrame("s1", "answer", "v=0 a")
    /\ handled[2] = SdpFrame("s1", "offer", "v=0 a")
    /\ Len(emitted) = 1 /\ emitted[1].signal = "session-description"

\* The signals that belong to a session already begun.
SessionSignals == {"session-description", "handle-ice", "session-ended"}

\* C12: once an endSession for a sessionId was handled, a later answer, ICE
\* candidate or endSession for that sessionId reaches the signaller no more:
\* after session-ended for s, no signal of the session s is emitted unless a
\* session-requested for s began it anew.
C12_EndedIsTerminal ==
    \A i, j \in DOMAIN emitted :
        (/\ i < j
         /\ emitted[i].signal = "session-ended"
         /\ emitted[j].signal \in SessionSignals
         /\ emitted[j].sessionId = emitted[i].sessionId)
            => \E k \in (i + 1)..(j - 1) :
                  /\ emitted[k].signal = "session-requested"
                  /\ emitted[k].sessionId = emitted[i].sessionId

\* A peer envelope that carries a complete ICE candidate and no sdp.
Candidate(f) ==
    /\ f.syntax = "object" /\ f.type = "peer" /\ ~f.hasSdp /\ f.hasIce
    /\ AllPresent(<<f.sessionId, f.sdpMLineIndex, f.candidate>>)

Welcome(f) == f.syntax = "object" /\ f.type = "welcome" /\ f.peerId # Absent

\* The envelope the welcome case passes to send (lines 168-173).
SetPeerStatus ==
    [type |-> "setPeerStatus", roles |-> <<"producer">>, meta |-> Meta]

\* C17: handling a welcome records its peerId as peer_id and then sends
\* one setPeerStatus with roles ["producer"] and the signaller's meta: it is
\* written to the connection, or, the server having closed the connection,
\* the send raises ConnectionClosed.  Handling any other frame writes
\* nothing and leaves peer_id alone.
C17_WelcomeAnswered ==
    [][handled' # handled
          => LET f == Last(handled')
             IN  IF Welcome(f)
                 THEN /\ peer_id' = f.peerId
                      /\ IF srvOpen
                         THEN wire' = Append(wire, SetPeerStatus)
                         ELSE wire' = wire /\ cexc' = "ConnectionClosed"
                 ELSE /\ wire' = wire
                      /\ peer_id' = peer_id]_vars

\* A welcome was handled and answered, then a startSession was handled and
\* given to the signaller with nothing more sent.
C17_Witness ==
    /\ Len(handled) = 2
    /\ Welcome(handled[1])
    /\ handled[2] = Obj("startSession", "p2", "s1", "v=0 o", Absent)
    /\ peer_id = "p1"
    /\ wire = <<SetPeerStatus>>
    /\ Len(emitted) = 2 /\ emitted[2].signal = "session-requested"

\* ================================================== the pipeline's claims

\* The bus messages that end the stream.
Terminal == {"ERROR", "EOS"}

\* C15: a run of _on_bus_poll that pops a terminal message, ERROR or EOS,
\* leaves the bus reader removed and the loop stopped; a run that pops
\* LATENCY messages only leaves the reader registered, the loop running and
\* the pipeline as it was.
C15_TerminalStopsLoop ==
    [][polled' # polled
          => IF \E i \in (Len(polled) + 1)..Len(polled') : polled'[i] \in Terminal
             THEN ~reader' /\ loop' = "stopped"
             ELSE reader' /\ loop' = "running" /\ pipe' = pipe]_vars

\* The envelopes on the wire that a callback scheduled: all but the
\* setPeerStatus that answers a welcome.
Scheduled == SelectSeq(wire, LAMBDA e : e.type # "setPeerStatus")

\* How many envelopes of a sequence the n-th callback scheduled.
Of(seq, n) == Cardinality({i \in DOMAIN seq : seq[i].call = n})

\* The envelope type each callback sends.
TypeOf(callback) == IF callback = "end-session" THEN "endSession" ELSE "peer"

\* C16: every callback has scheduled exactly one envelope, which is waiting
\* to be sent, written, or lost to an exception of its send, and which
\* carries the callback's sessionId and the callback's type; the envelopes
\* written are on the wire in the order their callbacks fired.
C16_CallbackOrder ==
    /\ \A n \in DOMAIN fired :
          /\ Of(tasks, n) + Of(Scheduled, n) + Of(lost, n) = 1
          /\ \A e \in {tasks[i] : i \in DOMAIN tasks}
                      \cup {Scheduled[i] : i \in DOMAIN Scheduled}
                      \cup {lost[i] : i \in DOMAIN lost} :
                e.call = n => /\ e.sessionId = fired[n].sessionId
                              /\ e.type = TypeOf(fired[n].callback)
    /\ \A i, j \in DOMAIN Scheduled :
          i < j => Scheduled[i].call < Scheduled[j].call

\* An ICE candidate and then the end of its session were signalled, and
\* both envelopes are on the wire, the candidate first.
C16_Witness ==
    /\ Len(fired) = 2
    /\ fired[1].callback = "send-ice" /\ fired[2].callback = "end-session"
    /\ Len(Scheduled) = 2
    /\ Scheduled[1].body = <<"ice", "candidate", "0">>
    /\ Scheduled[2].type = "endSession"
    /\ Scheduled[1].sessionId = Scheduled[2].sessionId

\* connect() has left its receive loop: `async for` ended or an exception
\* left it.  (A connect() that failed in websockets.connect never entered
\* the loop.)
ReceiveLoopEnded == cpc \in {"done", "failed"} /\ cexc # "OSError"

\* C18: once connect() has left its receive loop, by the server closing the
\* connection or by an exception of the handler, the connection is cleared,
\* the bus reader removed, the loop stopped and the pipeline NULL.
C18_CleanedUp ==
    ReceiveLoopEnded
        => /\ connection = "None"
           /\ ~reader
           /\ loop = "stopped"
           /\ pipe = "NULL"

\* The handler raised on a frame that is no JSON, after an end of stream
\* had made _on_bus_poll add the bus reader once more.
C18_Witness ==
    /\ cpc = "failed" /\ cexc = "JSONDecodeError"
    /\ polled = <<"EOS">>
    /\ connection = "None" /\ pipe = "NULL"

\* C19, as claimed: nothing is written while the connection is unset, and
\* an envelope a callback scheduled while the connection was unset, before
\* connect() stored it or after it was cleared, is never written.
C19_UnconnectedNeverSent ==
    [][/\ wire' # wire => connection = "ws"
       /\ \A i \in DOMAIN Scheduled' : ~Scheduled'[i].unset]_vars

\* C19, amended: nothing is written while the connection is unset; reading
\* the unset connection raises NoConnectionError in stop(), and in a send,
\* whose envelope is then lost; a lost envelope is never written later; and
\* nothing is written once connect() has left its receive loop.  What
\* decides is the connection when the send runs, not when the callback
\* scheduled it.
C19_NoWriteUnconnected ==
    [][/\ wire' # wire => connection = "ws"
       /\ stop("None").exc = "NoConnectionError"
       /\ (tasks' # tasks /\ fired' = fired /\ connection = "None")
             => wire' = wire /\ lost' = Append(lost, Head(tasks))
       /\ \A i \in DOMAIN Scheduled' : Of(lost', Scheduled'[i].call) = 0
       /\ ReceiveLoopEnded => wire' = wire]_vars

\* An envelope scheduled and run before the connection was stored is lost;
\* the connection is stored since, and a later envelope is on the wire.
C19_Witness ==
    /\ connection = "ws" /\ srvOpen
    /\ Len(lost) = 1 /\ lost[1].unset
    /\ Len(Scheduled) = 1 /\ ~Scheduled[1].unset
    /\ lost[1].call < Scheduled[1].call

====
